---- MODULE Spec2Model ----
(***************************************************************************)
(* Model of the in-keys terminal input layer (src/streams/mod.rs and       *)
(* src/streams/unix.rs): the readiness poller, the byte reader, the key    *)
(* decoder, the terminal-mode save/restore and the three read disciplines  *)
(* (blocking, timeout-bounded, cooperative future).                        *)
(*                                                                         *)
(* The terminal is the pair (mode, queue of unread bytes).  Every          *)
(* operating-system call the code makes is an operator on an "os" record   *)
(* that threads the terminal, the log of the calls made so far and the     *)
(* environment's script for the call (which OS call fails, which bytes     *)
(* arrive while a poll waits).                                             *)
(***************************************************************************)
EXTENDS Integers, Sequences, FiniteSets, TLC

(***************************************************************************)
(* Bounds of the model.                                                    *)
(***************************************************************************)
MaxInput == 2       \* unread bytes the terminal queue holds at most
MaxFaultIdx == 2    \* the n-th poll / read of a call that may be made to fail
MaxTimeoutHi == 2   \* requested timeouts range up to (MaxTimeoutHi+1) * i32::MAX - 1 ms
MaxSteps == 2       \* the steps of one future that are counted (more are taken)

(***************************************************************************)
(* Program constants.                                                      *)
(***************************************************************************)
SUCCESS == 0                \* unix.rs: const SUCCESS
I32_MAX == 2147483647       \* i32::MAX, the largest wait one poll accepts
INTR == 3                   \* b'\x03', the interrupt sentinel
ESC == 27                   \* b'\x1b'
LF == 10                    \* b'\n'
NoWait == 0                 \* the wait of every cooperative step
Forever == -1               \* the wait of the blocking discipline

(***************************************************************************)
(* Values a read produces.  Key (keys.rs): a variant name and, for Char,   *)
(* the Unicode scalar.                                                     *)
(***************************************************************************)
Key(name) == [k |-> name, c |-> 0, s |-> <<>>]

Char(cp) == [k |-> "Char", c |-> cp, s |-> <<>>]

\* A String returned by a line read: its bytes.
Line(bytes) == [k |-> "Line", c |-> 0, s |-> bytes]

\* The value slot of an operation that produced no value.
NoValue == [k |-> "None", c |-> 0, s |-> <<>>]

KeyNames ==
    {"Unknown", "ArrowLeft", "ArrowRight", "ArrowUp", "ArrowDown", "Enter",
     "Escape", "Backspace", "Home", "End", "Tab", "BackTab", "Alt", "Del",
     "Shift", "Insert", "PageUp", "PageDown", "Char"}

(***************************************************************************)
(* str::from_utf8 on a slice of 2, 3 or 4 bytes that starts with a         *)
(* multi-byte header, followed by chars().next(): the scalar the bytes     *)
(* encode, or -1 when the slice is not valid UTF-8 (overlong forms,        *)
(* surrogates and values above U+10FFFF are rejected as std does).         *)
(***************************************************************************)
IsCont(b) == b >= 128 /\ b <= 191

Utf8Scalar(bs) ==
    LET n == Len(bs)
        b1 == bs[1]
    IN  IF n = 2
        THEN IF b1 >= 194 /\ b1 <= 223 /\ IsCont(bs[2])
             THEN (b1 - 192) * 64 + (bs[2] - 128)
             ELSE -1
        ELSE IF n = 3
        THEN IF /\ b1 >= 224 /\ b1 <= 239
                /\ IsCont(bs[2]) /\ IsCont(bs[3])
                /\ (b1 = 224 => bs[2] >= 160)
                /\ (b1 = 237 => bs[2] <= 159)
             THEN (b1 - 224) * 4096 + (bs[2] - 128) * 64 + (bs[3] - 128)
             ELSE -1
        ELSE IF n = 4
        THEN IF /\ b1 >= 240 /\ b1 <= 244
                /\ IsCont(bs[2]) /\ IsCont(bs[3]) /\ IsCont(bs[4])
                /\ (b1 = 240 => bs[2] >= 144)
                /\ (b1 = 244 => bs[2] <= 143)
             THEN (b1 - 240) * 262144 + (bs[2] - 128) * 4096
                  + (bs[3] - 128) * 64 + (bs[4] - 128)
             ELSE -1
        ELSE -1

\* Mutant of KeyFromBytes: the bytes are not validated before the first
\* character is taken from them.
KeyFromBytes_unchecked(bs) ==
    Char((bs[1] % 32) * 64 + (bs[2] % 64))

\* impl From<&[u8]> for Key
KeyFromBytes(bs) ==
    LET cp == Utf8Scalar(bs)
    IN  IF cp < 0 THEN Key("Unknown") ELSE Char(cp)

(***************************************************************************)
(* The operating system, as the code sees it.                              *)
(*                                                                         *)
(* os.term    the terminal mode (libc::termios): the ICANON and ECHO bits  *)
(*            of c_lflag and, as one value, everything else                *)
(* os.input   the unread bytes queued in the terminal                      *)
(* os.eof     the input has ended (hang-up): a read of the empty queue     *)
(*            returns 0                                                    *)
(* os.arr     the bytes that arrive while the os.arrAt-th poll of this     *)
(*            call waits; os.arrived, os.arrivedAt: the bytes that did     *)
(*            arrive, and during which poll                                *)
(* os.fault   which OS call of this call fails, and how                    *)
(* os.polls   the waits of the polls made so far, in order                 *)
(* os.nreads  the number of read syscalls made so far                      *)
(* os.nattr   the number of tcsetattr calls made so far                    *)
(* os.modes   the modes set by the tcsetattr calls so far, in order        *)
(* os.filler  the number of bytes of the arrays read_bytes has returned    *)
(*            that no read put there                                       *)
(* os.restores  the number of times a snapshot was put back so far         *)
(* os.hit     the fault of the script has happened                         *)
(* os.blocked a poll with an unbounded wait never returned                 *)
(***************************************************************************)
Errnos == {"EINTR", "EIO"}

NoFault == [call |-> "none", n |-> 0, how |-> "none"]

\* IoError::last_os_error().kind(): std maps EINTR to ErrorKind::Interrupted.
ErrorKindOf(errno) == IF errno = "EINTR" THEN "Interrupted" ELSE "Uncategorized"

\* io_error: a C call's return value is a success only when it is SUCCESS.
io_error(ret) == ret = SUCCESS

Min(a, b) == IF a < b THEN a ELSE b

\* let x = ...; the value is computed once and named.
Bind(x, F(_)) == F(x)

Take(s, n) == SubSeq(s, 1, Min(n, Len(s)))

Drop(s, n) == SubSeq(s, Min(n, Len(s)) + 1, Len(s))

Zeros(n) == [i \in 1..n |-> 0]

HasByte(s, b) == \E i \in 1..Len(s) : s[i] = b

\* What the terminal reports as readable: in canonical mode a complete line,
\* otherwise any byte; the end of input is readable in both (a read returns).
Readable(term, input, eof) ==
    \/ eof
    \/ IF term.icanon THEN HasByte(input, LF) ELSE input /= <<>>

\* Mutant of poll_input: revents is not looked at, every poll that does not
\* fail reports input.
poll_input_always_ready(os, timeout) ==
    LET hit == os.fault.call = "poll" /\ os.fault.n = Len(os.polls) + 1
        failed == hit /\ os.fault.how \in Errnos
        os1 == [os EXCEPT !.polls = Append(@, timeout), !.hit = @ \/ failed]
    IN  IF failed
        THEN [os |-> os1, tag |-> "Err", kind |-> ErrorKindOf(os.fault.how),
              ready |-> FALSE]
        ELSE [os |-> os1, tag |-> "Ok", kind |-> "", ready |-> TRUE]

\* poll_input: the poll syscall on stdin with the given wait, then the test
\* of POLLIN in revents.  Result: [os, tag ("Ok" | "Err"), kind, ready].
poll_input(os, timeout) ==
    LET npolls == Len(os.polls) + 1
        hit == os.fault.call = "poll" /\ os.fault.n = npolls
        before == Readable(os.term, os.input, os.eof)
        \* bytes arrive while the poll waits (a poll with wait 0 does not wait)
        arrives == /\ ~before /\ timeout /= 0 /\ ~hit
                   /\ os.arr /= <<>> /\ os.arrAt = npolls
        input1 == IF arrives THEN os.input \o os.arr ELSE os.input
        pollin == Readable(os.term, input1, os.eof)
        \* hang-up / error events only: poll returns 1 without POLLIN
        nopollin == hit /\ os.fault.how = "NOPOLLIN" /\ ~pollin
        failed == hit /\ os.fault.how \in Errnos
        blocked == ~failed /\ ~nopollin /\ ~pollin /\ timeout < 0
        ret == IF failed THEN -1 ELSE IF pollin \/ nopollin THEN 1 ELSE 0
        os1 == [os EXCEPT !.polls = Append(@, timeout),
                          !.input = input1,
                          !.arr = IF arrives THEN <<>> ELSE @,
                          !.arrived = IF arrives THEN os.arr ELSE @,
                          !.arrivedAt = IF arrives THEN npolls ELSE @,
                          !.hit = @ \/ failed \/ nopollin,
                          !.blocked = @ \/ blocked]
    IN  IF io_error(Min(ret, SUCCESS))
        THEN [os |-> os1, tag |-> "Ok", kind |-> "", ready |-> pollin /\ ~failed]
        ELSE [os |-> os1, tag |-> "Err", kind |-> ErrorKindOf(os.fault.how),
              ready |-> FALSE]

\* read_bytes::<N>: poll, then one read syscall of N bytes into a zeroed
\* buffer.  Result: [os, tag ("Err" | "None" | "Some"), kind, buf].
read_bytes(os, N, timeout) ==
    Bind(poll_input(os, timeout), LAMBDA p :
        IF p.tag = "Err"
        THEN [os |-> p.os, tag |-> "Err", kind |-> p.kind, buf |-> <<>>]
        ELSE IF ~p.ready
        THEN [os |-> p.os, tag |-> "None", kind |-> "", buf |-> <<>>]
        ELSE IF N = 0
        THEN [os |-> p.os, tag |-> "Some", kind |-> "", buf |-> <<>>]
        ELSE
        LET o == p.os
            hit == o.fault.call = "read" /\ o.fault.n = o.nreads + 1
            got == IF hit THEN <<>> ELSE Take(o.input, N)
            read == IF hit THEN -1 ELSE Len(got)
            buffer == got \o Zeros(N - Len(got))
            os1 == [o EXCEPT !.nreads = @ + 1,
                             !.hit = @ \/ hit,
                             !.input = Drop(@, Len(got))]
        IN  IF read = 0
            THEN [os |-> os1, tag |-> "Err", kind |-> "UnexpectedEof", buf |-> <<>>]
            ELSE IF buffer[1] = INTR
            THEN [os |-> os1, tag |-> "Err", kind |-> "Interrupted", buf |-> <<>>]
            ELSE [os |-> [os1 EXCEPT !.filler = @ + (N - Len(got))],
                  tag |-> "Some", kind |-> "", buf |-> buffer])

(***************************************************************************)
(* The key decoder.  Results: [os, tag ("Err" | "None" | "Some"), kind,    *)
(* val].                                                                   *)
(***************************************************************************)
RErr(os, kind) == [os |-> os, tag |-> "Err", kind |-> kind, val |-> NoValue]

RNone(os) == [os |-> os, tag |-> "None", kind |-> "", val |-> NoValue]

RSome(os, val) == [os |-> os, tag |-> "Some", kind |-> "", val |-> val]

\* Mutant of CsiFinal: the arms for `[C` and `[D` are exchanged.
CsiFinal_swapped(b) ==
    CASE b = 65 -> "ArrowUp"
      [] b = 66 -> "ArrowDown"
      [] b = 67 -> "ArrowLeft"
      [] b = 68 -> "ArrowRight"
      [] b = 72 -> "Home"
      [] b = 70 -> "End"
      [] b = 90 -> "BackTab"
      [] OTHER -> ""

\* The two bytes after ESC that end the sequence at once.
CsiFinal(b) ==
    CASE b = 65 -> "ArrowUp"        \* [A
      [] b = 66 -> "ArrowDown"      \* [B
      [] b = 67 -> "ArrowRight"     \* [C
      [] b = 68 -> "ArrowLeft"      \* [D
      [] b = 72 -> "Home"           \* [H
      [] b = 70 -> "End"            \* [F
      [] b = 90 -> "BackTab"        \* [Z
      [] OTHER -> ""

\* The two bytes after ESC that want a trailing tilde.
CsiTilde(b) ==
    CASE b = 49 -> "Home"           \* [1
      [] b = 50 -> "Insert"         \* [2
      [] b = 51 -> "Del"            \* [3
      [] b = 52 -> "End"            \* [4
      [] b = 53 -> "PageUp"         \* [5
      [] b = 54 -> "PageDown"       \* [6
      [] b = 55 -> "Home"           \* [7
      [] b = 56 -> "End"            \* [8
      [] OTHER -> ""

\* Mutant of process_escape: the byte after the digit is read but not
\* compared with the tilde.
process_escape_any_trailer(os) ==
    Bind(read_bytes(os, 2, 0), LAMBDA r2 :
        IF r2.tag = "Err" THEN RErr(r2.os, r2.kind)
        ELSE IF r2.tag = "Some" /\ r2.buf[1] = 91 /\ CsiFinal(r2.buf[2]) /= ""
        THEN RSome(r2.os, Key(CsiFinal(r2.buf[2])))
        ELSE IF r2.tag = "Some" /\ r2.buf[1] = 91 /\ CsiTilde(r2.buf[2]) /= ""
        THEN Bind(read_bytes(r2.os, 1, 0), LAMBDA r3 :
                 IF r3.tag = "Err" THEN RErr(r3.os, r3.kind)
                 ELSE RSome(r3.os, Key(CsiTilde(r2.buf[2]))))
        ELSE RSome(r2.os, Key("Unknown")))

\* Mutant of process_escape: a lookahead that matches nothing is followed by
\* a read of one more byte.
process_escape_reads_on(os) ==
    Bind(read_bytes(os, 2, 0), LAMBDA r2 :
        IF r2.tag = "Err" THEN RErr(r2.os, r2.kind)
        ELSE IF r2.tag = "Some" /\ r2.buf[1] = 91 /\ CsiFinal(r2.buf[2]) /= ""
        THEN RSome(r2.os, Key(CsiFinal(r2.buf[2])))
        ELSE Bind(read_bytes(r2.os, 1, 0), LAMBDA r3 :
                 IF r3.tag = "Err" THEN RErr(r3.os, r3.kind)
                 ELSE IF /\ r2.tag = "Some" /\ r2.buf[1] = 91
                         /\ CsiTilde(r2.buf[2]) /= ""
                         /\ r3.tag = "Some" /\ r3.buf[1] = 126
                 THEN RSome(r3.os, Key(CsiTilde(r2.buf[2])))
                 ELSE RSome(r3.os, Key("Unknown"))))

\* The arm of process_key taken when ESC was read and more input is ready.
process_escape(os) ==
    Bind(read_bytes(os, 2, 0), LAMBDA r2 :
        IF r2.tag = "Err" THEN RErr(r2.os, r2.kind)
        ELSE IF r2.tag = "Some" /\ r2.buf[1] = 91 /\ CsiFinal(r2.buf[2]) /= ""
        THEN RSome(r2.os, Key(CsiFinal(r2.buf[2])))
        ELSE IF r2.tag = "Some" /\ r2.buf[1] = 91 /\ CsiTilde(r2.buf[2]) /= ""
        THEN Bind(read_bytes(r2.os, 1, 0), LAMBDA r3 :
                 IF r3.tag = "Err" THEN RErr(r3.os, r3.kind)
                 ELSE IF r3.tag = "Some" /\ r3.buf[1] = 126
                 THEN RSome(r3.os, Key(CsiTilde(r2.buf[2])))
                 ELSE RSome(r3.os, Key("Unknown")))
        ELSE RSome(r2.os, Key("Unknown")))

\* Mutant of process_utf8: the continuation bytes are waited for without
\* bound.
process_utf8_waits(os, byte, more) ==
    Bind(read_bytes(os, more, Forever), LAMBDA r :
        IF r.tag = "Err" THEN RErr(r.os, r.kind)
        ELSE IF r.tag = "None" THEN RSome(r.os, Key("Unknown"))
        ELSE RSome(r.os, KeyFromBytes(<<byte>> \o r.buf)))

\* The arms of process_key for a first byte with a UTF-8 header: `more`
\* continuation bytes are read with wait 0.
process_utf8(os, byte, more) ==
    Bind(read_bytes(os, more, 0), LAMBDA r :
        IF r.tag = "Err" THEN RErr(r.os, r.kind)
        ELSE IF r.tag = "None" THEN RSome(r.os, Key("Unknown"))
        ELSE RSome(r.os, KeyFromBytes(<<byte>> \o r.buf)))

\* Mutant of process_single: only printable bytes become a Char.
process_single_printable(byte) ==
    CASE byte = 10 \/ byte = 13 -> Key("Enter")
      [] byte = 127 -> Key("Backspace")
      [] byte = 9 -> Key("Tab")
      [] byte = 1 -> Key("Home")
      [] byte = 5 -> Key("End")
      [] byte = 8 -> Key("Backspace")
      [] byte < 32 -> Key("Unknown")
      [] OTHER -> Char(byte)

\* Mutant of process_single: the generic arm comes first for the carriage
\* return and the backspace byte.
process_single_generic_first(byte) ==
    CASE byte = 10 -> Key("Enter")
      [] byte = 127 -> Key("Backspace")
      [] byte = 9 -> Key("Tab")
      [] byte = 1 -> Key("Home")
      [] byte = 5 -> Key("End")
      [] OTHER -> Char(byte)

\* The arms of process_key for any other first byte.
process_single(byte) ==
    CASE byte = 10 \/ byte = 13 -> Key("Enter")
      [] byte = 127 -> Key("Backspace")
      [] byte = 9 -> Key("Tab")
      [] byte = 1 -> Key("Home")
      [] byte = 5 -> Key("End")
      [] byte = 8 -> Key("Backspace")
      [] OTHER -> Char(byte)

\* Mutant of process_key: the probe after ESC waits as long as the caller's
\* wait allows.
process_key_waits(os, timeout) ==
    Bind(read_bytes(os, 1, timeout), LAMBDA r1 :
        IF r1.tag = "Err" THEN RErr(r1.os, r1.kind)
        ELSE IF r1.tag = "None" THEN RNone(r1.os)
        ELSE
        LET byte == r1.buf[1]
        IN  IF byte = ESC
            THEN Bind(poll_input(r1.os, timeout), LAMBDA p :
                     IF p.tag = "Err" THEN RErr(p.os, p.kind)
                     ELSE IF p.ready THEN process_escape(p.os)
                     ELSE RSome(p.os, Key("Escape")))
            ELSE IF byte \div 32 = 6
            THEN process_utf8(r1.os, byte, 1)
            ELSE IF byte \div 16 = 14
            THEN process_utf8(r1.os, byte, 2)
            ELSE IF byte \div 8 = 30
            THEN process_utf8(r1.os, byte, 3)
            ELSE RSome(r1.os, process_single(byte)))

process_key(os, timeout) ==
    Bind(read_bytes(os, 1, timeout), LAMBDA r1 :
        IF r1.tag = "Err" THEN RErr(r1.os, r1.kind)
        ELSE IF r1.tag = "None" THEN RNone(r1.os)
        ELSE
        LET byte == r1.buf[1]
        IN  IF byte = ESC
            THEN Bind(poll_input(r1.os, 0), LAMBDA p :
                     IF p.tag = "Err" THEN RErr(p.os, p.kind)
                     ELSE IF p.ready THEN process_escape(p.os)
                     ELSE RSome(p.os, Key("Escape")))
            ELSE IF byte \div 32 = 6        \* byte & 224 == 192
            THEN process_utf8(r1.os, byte, 1)
            ELSE IF byte \div 16 = 14       \* byte & 240 == 224
            THEN process_utf8(r1.os, byte, 2)
            ELSE IF byte \div 8 = 30        \* byte & 248 == 240
            THEN process_utf8(r1.os, byte, 3)
            ELSE RSome(r1.os, process_single(byte)))

read_key(os, timeout) == process_key(os, timeout)

(***************************************************************************)
(* Line reads.                                                             *)
(***************************************************************************)
RECURSIVE Utf8Valid(_)
\* str::from_utf8 on a whole line.
Utf8Valid(s) ==
    IF s = <<>> THEN TRUE
    ELSE LET b == s[1]
             n == IF b < 128 THEN 1
                  ELSE IF b \div 32 = 6 THEN 2
                  ELSE IF b \div 16 = 14 THEN 3
                  ELSE IF b \div 8 = 30 THEN 4
                  ELSE 0
         IN  /\ n > 0
             /\ Len(s) >= n
             /\ (n > 1 => Utf8Scalar(Take(s, n)) >= 0)
             /\ Utf8Valid(Drop(s, n))

FirstIndex(s, b) == CHOOSE i \in 1..Len(s) : s[i] = b /\ \A j \in 1..(i - 1) : s[j] /= b

\* BufRead::read_line on the locked stdin: read syscalls until a newline or
\* the end of input; a read interrupted by a signal is retried, any other
\* failure is returned; the bytes must be UTF-8.
read_line(os) ==
    LET hit == os.fault.call = "read" /\ os.fault.n = os.nreads + 1
        failed == hit /\ os.fault.how /= "EINTR"
        retried == hit /\ os.fault.how = "EINTR"
        whole == HasByte(os.input, LF)
        n == IF whole THEN FirstIndex(os.input, LF) ELSE Len(os.input)
        line == Take(os.input, n)
        os1 == [os EXCEPT !.nreads = @ + 1 + (IF retried THEN 1 ELSE 0),
                          !.hit = @ \/ hit,
                          !.input = IF failed THEN @ ELSE Drop(@, n),
                          !.blocked = @ \/ (~failed /\ ~whole /\ ~os.eof)]
    IN  IF failed THEN RErr(os1, ErrorKindOf(os.fault.how))
        ELSE IF ~Utf8Valid(line) THEN RErr(os1, "InvalidData")
        ELSE RSome(os1, Line(line))

read_string(os, timeout) ==
    Bind(poll_input(os, timeout), LAMBDA p :
        IF p.tag = "Err" THEN RErr(p.os, p.kind)
        ELSE IF p.ready THEN read_line(p.os)
        ELSE RNone(p.os))

(***************************************************************************)
(* The terminal mode and its save / restore.                               *)
(***************************************************************************)
Flags == {"Canonical", "Echo", "NotCanonical", "NotEcho"}

\* Mutant of ApplyFlag: a flag is a delta, it flips the bit it names.
ApplyFlag_toggle(termios, flag) ==
    IF flag \in {"Canonical", "NotCanonical"}
    THEN [termios EXCEPT !.icanon = ~@]
    ELSE [termios EXCEPT !.echo = ~@]

\* One iteration of the flag loop of Config::set.
ApplyFlag(termios, flag) ==
    CASE flag = "Canonical" -> [termios EXCEPT !.icanon = TRUE]
      [] flag = "Echo" -> [termios EXCEPT !.echo = TRUE]
      [] flag = "NotCanonical" -> [termios EXCEPT !.icanon = FALSE]
      [] flag = "NotEcho" -> [termios EXCEPT !.echo = FALSE]

RECURSIVE ApplyFlags(_, _)
ApplyFlags(termios, flags) ==
    IF flags = <<>> THEN termios
    ELSE ApplyFlags(ApplyFlag(termios, Head(flags)), Tail(flags))

\* libc::tcgetattr through io_error: [os, tag, kind, termios].
tcgetattr(os) ==
    LET hit == os.fault.call = "getattr"
        ret == IF hit THEN -1 ELSE 0
        os1 == [os EXCEPT !.hit = @ \/ hit]
    IN  IF io_error(ret)
        THEN [os |-> os1, tag |-> "Ok", kind |-> "", termios |-> os.term]
        ELSE [os |-> os1, tag |-> "Err", kind |-> ErrorKindOf(os.fault.how),
              termios |-> os.term]

\* libc::tcsetattr through io_error; TCSAFLUSH discards the unread input.
tcsetattr(os, flush, termios) ==
    LET hit == os.fault.call = "setattr" /\ os.fault.n = os.nattr + 1
        ret == IF hit THEN -1 ELSE 0
        os1 == [os EXCEPT !.nattr = @ + 1, !.hit = @ \/ hit]
    IN  IF io_error(ret)
        THEN [os |-> [os1 EXCEPT !.term = termios,
                                 !.modes = Append(@, termios),
                                 !.input = IF flush THEN <<>> ELSE @],
              tag |-> "Ok", kind |-> ""]
        ELSE [os |-> os1, tag |-> "Err", kind |-> ErrorKindOf(os.fault.how)]

NoOriginal == [icanon |-> FALSE, echo |-> FALSE, other |-> -1]

\* set_config(lock, flush, flags) -> IoResult<Original>: query the mode, keep
\* it as the snapshot, apply the flags, set the mode.
\* Result: [os, tag, kind, original].
set_config(os, flush, flags) ==
    Bind(tcgetattr(os), LAMBDA g :
        IF g.tag = "Err"
        THEN [os |-> g.os, tag |-> "Err", kind |-> g.kind, original |-> NoOriginal]
        ELSE Bind(tcsetattr(g.os, flush, ApplyFlags(g.termios, flags)), LAMBDA t :
            IF t.tag = "Err"
            THEN [os |-> t.os, tag |-> "Err", kind |-> t.kind,
                  original |-> NoOriginal]
            ELSE [os |-> t.os, tag |-> "Ok", kind |-> "", original |-> g.termios]))

\* reset_config(lock, original) -> IoResult<()>: set the mode to the snapshot.
reset_config(os, original) ==
    Bind(tcsetattr(os, FALSE, original), LAMBDA t :
        IF t.tag = "Err" THEN t
        ELSE [t EXCEPT !.os.restores = @ + 1])

\* Mutant of Config_set: the result of the mode query is not looked at.
Config_set_unchecked(os, flush, flags) ==
    Bind(tcgetattr(os), LAMBDA g :
        Bind(tcsetattr(g.os, flush, ApplyFlags(g.termios, flags)), LAMBDA t :
            IF t.tag = "Err"
            THEN [os |-> t.os, tag |-> "Panic", kind |-> t.kind,
                  config |-> [original |-> NoOriginal, flush |-> flush]]
            ELSE [os |-> t.os, tag |-> "Ok", kind |-> "",
                  config |-> [original |-> g.termios, flush |-> flush]]))

\* Config::set: query the mode (unwrap), keep it as the original, apply the
\* flags, set the mode with TCSAFLUSH or TCSADRAIN (unwrap).
\* Result: [os, tag ("Ok" | "Panic"), kind, config].
Config_set(os, flush, flags) ==
    Bind(tcgetattr(os), LAMBDA g :
        IF g.tag = "Err"
        THEN [os |-> g.os, tag |-> "Panic", kind |-> g.kind,
              config |-> [original |-> NoOriginal, flush |-> flush]]
        ELSE Bind(tcsetattr(g.os, flush, ApplyFlags(g.termios, flags)), LAMBDA t :
            IF t.tag = "Err"
            THEN [os |-> t.os, tag |-> "Panic", kind |-> t.kind,
                  config |-> [original |-> NoOriginal, flush |-> flush]]
            ELSE [os |-> t.os, tag |-> "Ok", kind |-> "",
                  config |-> [original |-> g.termios, flush |-> flush]]))

\* Drop for Config: set the mode to the original with TCSAFLUSH or TCSANOW
\* (unwrap).
Config_drop(os, config) ==
    Bind(tcsetattr(os, config.flush, config.original), LAMBDA t :
        IF t.tag = "Err" THEN [t EXCEPT !.tag = "Panic"]
        ELSE [t EXCEPT !.os.restores = @ + 1])

(***************************************************************************)
(* The read families of StdinLock (mod.rs).  Each kind of read names the   *)
(* flush policy, the flags and the reader its functions are generated      *)
(* with.                                                                   *)
(***************************************************************************)
Kinds == {"key", "string", "hidden"}

\* Mutant of FlushOf: no read discards the unread input.
FlushOf_never(kind) == FALSE

FlushOf(kind) == kind /= "key"

FlagsOf(kind) ==
    CASE kind = "key" -> <<"NotCanonical", "NotEcho">>
      [] kind = "string" -> <<"Canonical", "Echo">>
      [] kind = "hidden" -> <<"Canonical", "NotEcho">>

ReadOf(kind, os, timeout) ==
    IF kind = "key" THEN read_key(os, timeout) ELSE read_string(os, timeout)

\* What a call hands back to its caller.
\*   out: "Ok" (a value), "None" (no result), "Err", "Pending", "Panic"
Outcome(os, out, kind, val, acquired, original, waits) ==
    [os |-> os, out |-> out, kind |-> kind, val |-> val,
     acquired |-> acquired, original |-> original, waits |-> waits]

\* A scope that owns a Config: Config::set, then the drop at its end.
Config_scope(os, flush, flags) ==
    Bind(Config_set(os, flush, flags), LAMBDA c :
        IF c.tag = "Panic"
        THEN Outcome(c.os, "Panic", c.kind, NoValue, FALSE, NoOriginal, <<>>)
        ELSE Bind(Config_drop(c.os, c.config), LAMBDA d :
            IF d.tag = "Panic"
            THEN Outcome(d.os, "Panic", d.kind, NoValue, TRUE, c.config.original,
                         <<>>)
            ELSE Outcome(d.os, "Ok", "", NoValue, TRUE, c.config.original, <<>>)))

\* StdinLock::read_key / read_string / read_string_hidden.
read_blocking(os, kind) ==
    Bind(set_config(os, FlushOf(kind), FlagsOf(kind)), LAMBDA s :
        IF s.tag = "Err"
        THEN Outcome(s.os, "Err", s.kind, NoValue, FALSE, NoOriginal, <<>>)
        ELSE Bind(ReadOf(kind, s.os, Forever), LAMBDA r :
            IF r.tag = "Err"
            THEN Outcome(r.os, "Err", r.kind, NoValue, TRUE, s.original, <<Forever>>)
            ELSE IF r.tag = "None"      \* Option::unwrap on None
            THEN Outcome(r.os, "Panic", "", NoValue, TRUE, s.original, <<Forever>>)
            ELSE Bind(reset_config(r.os, s.original), LAMBDA z :
                IF z.tag = "Err"
                THEN Outcome(z.os, "Err", z.kind, NoValue, TRUE, s.original,
                             <<Forever>>)
                ELSE Outcome(z.os, "Ok", "", r.val, TRUE, s.original,
                             <<Forever>>))))

(***************************************************************************)
(* A Duration in milliseconds (u128) is kept as hi * i32::MAX + lo with    *)
(* 0 <= lo < i32::MAX, so that no value the model computes leaves the      *)
(* range of 32-bit integers.                                               *)
(***************************************************************************)
Millis(hi, lo) == [hi |-> hi, lo |-> lo]

\* Mutant of GreaterThanMax: the remaining timeout is compared with u32::MAX.
GreaterThanMax_u32(t) == t.hi > 2 \/ (t.hi = 2 /\ t.lo > 1)

\* timeout > i32::MAX as u128
GreaterThanMax(t) == t.hi > 1 \/ (t.hi = 1 /\ t.lo > 0)

\* timeout -= i32::MAX as u128
SubMax(t) == [t EXCEPT !.hi = @ - 1]

\* timeout as i32: the low 32 bits, read as a signed number.
\* hi * (2^31 - 1) + lo = hi * 2^31 + (lo - hi).
AsI32(t) ==
    LET d == t.lo - t.hi
    IN  IF t.hi % 2 = 0 THEN d
        ELSE IF d >= 0 THEN (d - I32_MAX) - 1
        ELSE I32_MAX + (d + 1)

RECURSIVE timeout_loop(_, _, _, _)
\* The loop of read_or_timeout!: [r, waits], r the result that left the loop.
timeout_loop(os, kind, timeout, waits) ==
    IF GreaterThanMax(timeout)
    THEN Bind(ReadOf(kind, os, I32_MAX), LAMBDA r :
             IF r.tag = "None"
             THEN timeout_loop(r.os, kind, SubMax(timeout), Append(waits, I32_MAX))
             ELSE [r |-> r, waits |-> Append(waits, I32_MAX)])
    ELSE [r |-> ReadOf(kind, os, AsI32(timeout)),
          waits |-> Append(waits, AsI32(timeout))]

\* read_key_or_timeout / read_string_or_timeout / read_string_hidden_or_timeout.
read_or_timeout(os, kind, timeout) ==
    Bind(set_config(os, FlushOf(kind), FlagsOf(kind)), LAMBDA s :
        IF s.tag = "Err"
        THEN Outcome(s.os, "Err", s.kind, NoValue, FALSE, NoOriginal, <<>>)
        ELSE Bind(timeout_loop(s.os, kind, timeout, <<>>), LAMBDA l :
            IF l.r.tag = "Err"
            THEN Outcome(l.r.os, "Err", l.r.kind, NoValue, TRUE, s.original, l.waits)
            ELSE Bind(reset_config(l.r.os, s.original), LAMBDA z :
                IF z.tag = "Err"
                THEN Outcome(z.os, "Err", z.kind, NoValue, TRUE, s.original, l.waits)
                ELSE IF l.r.tag = "None"
                THEN Outcome(z.os, "None", "", NoValue, TRUE, s.original, l.waits)
                ELSE Outcome(z.os, "Ok", "", l.r.val, TRUE, s.original, l.waits))))

(***************************************************************************)
(* The cooperative discipline.  ReadFuture.original is                     *)
(* Option<IoResult<Original>>: [tag ("None" | "Ok" | "Err"), term, kind].  *)
(***************************************************************************)
SlotNone == [tag |-> "None", term |-> NoOriginal, kind |-> ""]

\* read_key_future / read_string_future / read_string_hidden_future: the
\* flags are set when the future is made.
read_future(os, kind) ==
    Bind(set_config(os, FlushOf(kind), FlagsOf(kind)), LAMBDA s :
        [os |-> s.os,
         original |-> [tag |-> s.tag, term |-> s.original, kind |-> s.kind]])

\* ReadFuture::poll: [os, out, ..., slot], slot the value of self.original
\* when poll returns.
PollReady(o) == [o |-> o, slot |-> SlotNone, woken |-> FALSE]

PollPending(o, slot) == [o |-> o, slot |-> slot, woken |-> TRUE]

\* Mutant of ReadFuture_poll: the step waits a millisecond for input.
ReadFuture_poll_waits(os, kind, slot) ==
    IF slot.tag = "Err"
    THEN PollReady(Outcome(os, "Err", slot.kind, NoValue, FALSE, NoOriginal, <<>>))
    ELSE Bind(ReadOf(kind, os, 1), LAMBDA r :
        IF r.tag = "Err"
        THEN PollReady(Outcome(r.os, "Err", r.kind, NoValue, TRUE, slot.term, <<1>>))
        ELSE IF r.tag = "None"
        THEN PollPending(Outcome(r.os, "Pending", "", NoValue, TRUE, slot.term,
                                 <<1>>), slot)
        ELSE Bind(reset_config(r.os, slot.term), LAMBDA z :
            IF z.tag = "Err"
            THEN PollReady(Outcome(z.os, "Err", z.kind, NoValue, TRUE, slot.term,
                                   <<1>>))
            ELSE PollReady(Outcome(z.os, "Ok", "", r.val, TRUE, slot.term, <<1>>))))

\* Mutant of ReadFuture_poll: a value that was read is dropped and the step
\* reports Pending.
ReadFuture_poll_drops(os, kind, slot) ==
    IF slot.tag = "Err"
    THEN PollReady(Outcome(os, "Err", slot.kind, NoValue, FALSE, NoOriginal, <<>>))
    ELSE Bind(ReadOf(kind, os, NoWait), LAMBDA r :
        IF r.tag = "Err"
        THEN PollReady(Outcome(r.os, "Err", r.kind, NoValue, TRUE, slot.term,
                               <<NoWait>>))
        ELSE PollPending(Outcome(r.os, "Pending", "", NoValue, TRUE, slot.term,
                                 <<NoWait>>), slot))

\* Mutant of ReadFuture_poll: the snapshot is put back on every step, also
\* on one that reports Pending.
ReadFuture_poll_restores(os, kind, slot) ==
    IF slot.tag = "Err"
    THEN PollReady(Outcome(os, "Err", slot.kind, NoValue, FALSE, NoOriginal, <<>>))
    ELSE Bind(ReadOf(kind, os, NoWait), LAMBDA r :
        IF r.tag = "Err"
        THEN PollReady(Outcome(r.os, "Err", r.kind, NoValue, TRUE, slot.term,
                               <<NoWait>>))
        ELSE Bind(reset_config(r.os, slot.term), LAMBDA z :
            IF z.tag = "Err"
            THEN PollReady(Outcome(z.os, "Err", z.kind, NoValue, TRUE, slot.term,
                                   <<NoWait>>))
            ELSE IF r.tag = "None"
            THEN PollPending(Outcome(z.os, "Pending", "", NoValue, TRUE, slot.term,
                                     <<NoWait>>), slot)
            ELSE PollReady(Outcome(z.os, "Ok", "", r.val, TRUE, slot.term,
                                   <<NoWait>>))))

\* Mutant of ReadFuture_poll: a step that reports Pending does not wake the
\* task.
ReadFuture_poll_nowake(os, kind, slot) ==
    IF slot.tag = "Err"
    THEN PollReady(Outcome(os, "Err", slot.kind, NoValue, FALSE, NoOriginal, <<>>))
    ELSE Bind(ReadOf(kind, os, NoWait), LAMBDA r :
        IF r.tag = "Err"
        THEN PollReady(Outcome(r.os, "Err", r.kind, NoValue, TRUE, slot.term,
                               <<NoWait>>))
        ELSE IF r.tag = "None"
        THEN [PollPending(Outcome(r.os, "Pending", "", NoValue, TRUE, slot.term,
                                  <<NoWait>>), slot) EXCEPT !.woken = FALSE]
        ELSE Bind(reset_config(r.os, slot.term), LAMBDA z :
            IF z.tag = "Err"
            THEN PollReady(Outcome(z.os, "Err", z.kind, NoValue, TRUE, slot.term,
                                   <<NoWait>>))
            ELSE PollReady(Outcome(z.os, "Ok", "", r.val, TRUE, slot.term,
                                   <<NoWait>>))))

\* Mutant of ReadFuture_poll: a step that reports Pending leaves the slot
\* empty.
ReadFuture_poll_forgets(os, kind, slot) ==
    IF slot.tag = "Err"
    THEN PollReady(Outcome(os, "Err", slot.kind, NoValue, FALSE, NoOriginal, <<>>))
    ELSE IF slot.tag = "None"
    THEN PollReady(Outcome(os, "Panic", "unreachable", NoValue, FALSE, NoOriginal,
                           <<>>))
    ELSE Bind(ReadOf(kind, os, NoWait), LAMBDA r :
        IF r.tag = "Err"
        THEN PollReady(Outcome(r.os, "Err", r.kind, NoValue, TRUE, slot.term,
                               <<NoWait>>))
        ELSE IF r.tag = "None"
        THEN PollPending(Outcome(r.os, "Pending", "", NoValue, TRUE, slot.term,
                                 <<NoWait>>), SlotNone)
        ELSE Bind(reset_config(r.os, slot.term), LAMBDA z :
            IF z.tag = "Err"
            THEN PollReady(Outcome(z.os, "Err", z.kind, NoValue, TRUE, slot.term,
                                   <<NoWait>>))
            ELSE PollReady(Outcome(z.os, "Ok", "", r.val, TRUE, slot.term,
                                   <<NoWait>>))))

\* ReadFuture::poll: the slot is taken; an error in it is returned, an empty
\* slot is unreachable!(); otherwise one read with wait 0.
ReadFuture_poll(os, kind, slot) ==
    IF slot.tag = "Err"
    THEN PollReady(Outcome(os, "Err", slot.kind, NoValue, FALSE, NoOriginal, <<>>))
    ELSE IF slot.tag = "None"
    THEN PollReady(Outcome(os, "Panic", "unreachable", NoValue, FALSE, NoOriginal,
                           <<>>))
    ELSE Bind(ReadOf(kind, os, NoWait), LAMBDA r :
        IF r.tag = "Err"
        THEN PollReady(Outcome(r.os, "Err", r.kind, NoValue, TRUE, slot.term,
                               <<NoWait>>))
        ELSE IF r.tag = "None"
        THEN PollPending(Outcome(r.os, "Pending", "", NoValue, TRUE, slot.term,
                                 <<NoWait>>), slot)
        ELSE Bind(reset_config(r.os, slot.term), LAMBDA z :
            IF z.tag = "Err"
            THEN PollReady(Outcome(z.os, "Err", z.kind, NoValue, TRUE, slot.term,
                                   <<NoWait>>))
            ELSE PollReady(Outcome(z.os, "Ok", "", r.val, TRUE, slot.term,
                                   <<NoWait>>))))

(***************************************************************************)
(* The state machine.                                                      *)
(*                                                                         *)
(* term, input, eof   the terminal: mode, unread bytes, end of input       *)
(* fut                the ReadFuture in flight, if any                     *)
(* last               what the call of a read function that has just       *)
(*                    returned did and returned, until the caller has      *)
(*                    taken the result                                     *)
(***************************************************************************)
VARIABLES term, input, eof, fut, last, streams

vars == <<term, input, eof, fut, last, streams>>

\* Mutant of Streams_new: the terminal check is left out.
Streams_new_unfiltered(is_terminal) == "Some"

\* Streams::new: stdin is kept only when it is a terminal
\* (Some(io::stdin()).filter(Stdin::is_terminal)).
Streams_new(is_terminal) == IF is_terminal THEN "Some" ELSE "None"

\* Streams::lock_stdin: the lock, if there is a stdin.
lock_stdin(st) == st.stdin

\* The panic messages of the facade.
FAILED_READ == "failed to read from stream"

FAILED_CONNECT == "failed to connect with attended input stream"

\* The bytes the user types: the interrupt byte, newline, ESC and a letter.
TypedBytes == {INTR, LF, ESC, 97}

Modes == [icanon : BOOLEAN, echo : BOOLEAN, other : {1}]

\* The scripts of the environment for one call: which OS call fails and how
\* (the n-th poll, the n-th read, the n-th tcsetattr), ...
Faults ==
    {NoFault}
    \cup [call : {"getattr"}, n : {1}, how : {"EIO"}]
    \cup [call : {"setattr"}, n : 1..2, how : {"EIO"}]
    \cup [call : {"poll"}, n : 1..MaxFaultIdx, how : Errnos \cup {"NOPOLLIN"}]
    \cup [call : {"read"}, n : 1..MaxFaultIdx, how : Errnos]

\* ... which bytes arrive while a poll of the call waits, and during which
\* poll they do ...
Arrivals == {<<>>, <<97>>, <<LF>>, <<INTR>>}

ArrivalPolls == {1, 2}

ArrivalScripts ==
    {<<(<<>>), 1>>} \cup ((Arrivals \ {<<>>}) \X ArrivalPolls)

\* ... and the timeout the caller asks for.
Timeouts == [hi : 0..MaxTimeoutHi, lo : {0, 1}]

OsOf(t, queue, ended, f, arr, at) ==
    [term |-> t, input |-> queue, eof |-> ended,
     fault |-> f, arr |-> arr, arrAt |-> at, arrived |-> <<>>, arrivedAt |-> 0,
     polls |-> <<>>, nreads |-> 0, nattr |-> 0, restores |-> 0,
     modes |-> <<>>, filler |-> 0,
     hit |-> FALSE, blocked |-> FALSE]

MkOs(f, arr, at) == OsOf(term, input, eof, f, arr, at)

NoFuture ==
    [live |-> FALSE, kind |-> "key", slot |-> SlotNone, steps |-> 0,
     woken |-> FALSE]

NoTimeout == Millis(-1, 0)

\* The record of a call: what it was, the terminal before it, what it did
\* and what it returned.
Call(disc, kind, timeout, o, steps, woken) ==
    [disc |-> disc, kind |-> kind, timeout |-> timeout,
     flags |-> FlagsOf(kind), flush |-> FlushOf(kind),
     pre |-> term, preinput |-> input, preeof |-> eof,
     out |-> o.out, err |-> o.kind, val |-> o.val,
     acquired |-> o.acquired, original |-> o.original, waits |-> o.waits,
     polls |-> o.os.polls, nreads |-> o.os.nreads, nattr |-> o.os.nattr,
     restores |-> o.os.restores,
     modes |-> o.os.modes, filler |-> o.os.filler,
     fault |-> IF o.os.hit THEN o.os.fault ELSE NoFault,
     arrived |-> o.os.arrived, arrivedAt |-> o.os.arrivedAt,
     post |-> o.os.input,
     steps |-> steps, woken |-> woken]

NoCall ==
    [disc |-> "none", kind |-> "key", timeout |-> NoTimeout,
     flags |-> <<>>, flush |-> FALSE,
     pre |-> NoOriginal, preinput |-> <<>>, preeof |-> FALSE,
     out |-> "none", err |-> "", val |-> NoValue,
     acquired |-> FALSE, original |-> NoOriginal, waits |-> <<>>,
     polls |-> <<>>, nreads |-> 0, nattr |-> 0, restores |-> 0,
     modes |-> <<>>, filler |-> 0,
     fault |-> NoFault, arrived |-> <<>>, arrivedAt |-> 0, post |-> <<>>,
     steps |-> 0, woken |-> FALSE]

Init ==
    /\ term \in Modes
    /\ input = <<>>
    /\ eof = FALSE
    /\ fut = NoFuture
    /\ last = NoCall
    /\ \E tty \in BOOLEAN :
           streams = [attended |-> tty, stdin |-> Streams_new(tty)]

\* The user types a byte.
Type ==
    /\ Len(input) < MaxInput
    /\ ~eof
    /\ \E b \in TypedBytes : input' = Append(input, b)
    /\ last' = NoCall
    /\ UNCHANGED <<term, eof, fut, streams>>

\* The input ends (the terminal hangs up).
Hangup ==
    /\ ~eof
    /\ eof' = TRUE
    /\ last' = NoCall
    /\ UNCHANGED <<term, input, fut, streams>>

\* A call returns: the terminal is as the call left it.
Returns(o, call) ==
    /\ ~o.os.blocked
    /\ Len(o.os.input) <= MaxInput
    /\ term' = o.os.term
    /\ input' = o.os.input
    /\ last' = call
    /\ UNCHANGED <<eof, streams>>

\* Mutant of CallBlocking: the blocking reads take the lock by shared
\* reference, so one can be called while a future borrows the lock.
CallBlocking_shared ==
    /\ lock_stdin(streams) = "Some"
    /\ last = NoCall
    /\ \E kind \in Kinds, f \in Faults, arr \in Arrivals :
         \E o \in {read_blocking(MkOs(f, arr, 1), kind)} :
             Returns(o, Call("blocking", kind, NoTimeout, o, 0, FALSE))
    /\ UNCHANGED fut

\* The read takes &mut self: it cannot be called while a future borrows the
\* lock.
CallBlocking ==
    /\ lock_stdin(streams) = "Some"
    /\ ~fut.live
    /\ last = NoCall
    /\ \E kind \in Kinds, f \in Faults, arr \in Arrivals :
         \E o \in {read_blocking(MkOs(f, arr, 1), kind)} :
             Returns(o, Call("blocking", kind, NoTimeout, o, 0, FALSE))
    /\ UNCHANGED fut

CallTimeout ==
    /\ lock_stdin(streams) = "Some"
    /\ ~fut.live
    /\ last = NoCall
    /\ \E kind \in Kinds, f \in Faults, a \in ArrivalScripts, t \in Timeouts :
         \E o \in {read_or_timeout(MkOs(f, a[1], a[2]), kind, t)} :
             Returns(o, Call("timeout", kind, t, o, 0, FALSE))
    /\ UNCHANGED fut

\* What the call that makes a future has done when it returns.
FutureMade(m) ==
    Outcome(m.os, "Future", m.original.kind, NoValue,
            m.original.tag = "Ok", m.original.term, <<>>)

\* read_*_future is called: the future exists, no step was taken yet.
CallFuture ==
    /\ lock_stdin(streams) = "Some"
    /\ ~fut.live
    /\ last = NoCall
    /\ \E kind \in Kinds, f \in Faults :
         \E m \in {read_future(MkOs(f, <<>>, 1), kind)} :
             /\ Returns(FutureMade(m), Call("future", kind, NoTimeout,
                                           FutureMade(m), 0, FALSE))
             /\ fut' = [live |-> TRUE, kind |-> kind, slot |-> m.original,
                        steps |-> 0, woken |-> TRUE]

\* The scheduler takes one step of the future in flight: it polls a task
\* when it is new and after each wake.
StepFuture ==
    /\ fut.live
    /\ fut.woken
    /\ last = NoCall
    /\ \E f \in Faults :
         \E p \in {ReadFuture_poll(MkOs(f, <<>>, 1), fut.kind, fut.slot)} :
             /\ Returns(p.o, Call("step", fut.kind, NoTimeout, p.o,
                                  Min(fut.steps + 1, MaxSteps), p.woken))
             /\ fut' = IF p.o.out = "Pending"
                       THEN [fut EXCEPT !.slot = p.slot,
                                        !.steps = Min(@ + 1, MaxSteps),
                                        !.woken = p.woken]
                       ELSE NoFuture

\* The caller drops the future between two steps: ReadFuture has no Drop
\* and its fields run no code when dropped.
DropFuture ==
    /\ fut.live
    /\ last = NoCall
    /\ last' = [NoCall EXCEPT !.disc = "drop", !.out = "Dropped",
                              !.kind = fut.kind, !.pre = term,
                              !.acquired = (fut.slot.tag = "Ok"),
                              !.original = fut.slot.term,
                              !.steps = fut.steps]
    /\ fut' = NoFuture
    /\ UNCHANGED <<term, input, eof, streams>>

\* The flags a Config is made with: none, one or two of them.
FlagLists ==
    {<<>>} \cup {<<a>> : a \in Flags} \cup {<<a, b>> : a, b \in Flags}

\* A Config is made and dropped; the mode query or a mode set may fail.
ConfigScope ==
    /\ lock_stdin(streams) = "Some"
    /\ ~fut.live
    /\ last = NoCall
    /\ \E flush \in BOOLEAN, flags \in FlagLists,
          f \in {g \in Faults : g.call \in {"none", "getattr", "setattr"}} :
         \E o \in {Config_scope(MkOs(f, <<>>, 1), flush, flags)} :
             Returns(o, [Call("config", "key", NoTimeout, o, 0, FALSE)
                            EXCEPT !.kind = "config", !.flags = flags,
                                   !.flush = flush])
    /\ UNCHANGED fut

\* Streams::lock_stdin is called on its own.
LockStdin ==
    /\ ~fut.live
    /\ last = NoCall
    /\ last' = [NoCall EXCEPT !.disc = "lock_stdin", !.out = lock_stdin(streams)]
    /\ UNCHANGED <<term, input, eof, fut, streams>>

\* Terminal::read_key / Terminal::read_string once the lock is there: an
\* error of the read becomes a panic.
Terminal_read(os, kind) ==
    Bind(read_blocking(os, kind), LAMBDA o :
        IF o.out = "Err" THEN [o EXCEPT !.out = "Panic", !.kind = FAILED_READ]
        ELSE o)

\* Terminal::read_key / Terminal::read_string.
TerminalRead ==
    /\ ~fut.live
    /\ last = NoCall
    /\ \E kind \in {"key", "string"} :
         IF lock_stdin(streams) = "None"
         THEN /\ last' = [NoCall EXCEPT !.disc = "facade", !.kind = kind,
                                        !.out = "Panic", !.err = FAILED_CONNECT]
              /\ UNCHANGED <<term, input, eof, fut, streams>>
         ELSE \E f \in Faults, arr \in Arrivals :
                \E o \in {Terminal_read(MkOs(f, arr, 1), kind)} :
                    /\ Returns(o, Call("facade", kind, NoTimeout, o, 0, FALSE))
                    /\ UNCHANGED fut

\* The caller has taken the result of the call that returned.
Consume ==
    /\ last /= NoCall
    /\ last' = NoCall
    /\ UNCHANGED <<term, input, eof, fut, streams>>

Next ==
    \/ Type
    \/ Consume
    \/ Hangup
    \/ CallBlocking
    \/ CallTimeout
    \/ CallFuture
    \/ StepFuture
    \/ DropFuture
    \/ ConfigScope
    \/ LockStdin
    \/ TerminalRead

Spec == Init /\ [][Next]_vars

\* The cooperative discipline alone: futures are made, stepped and dropped
\* while bytes are typed.
FutureNext ==
    \/ Type
    \/ Consume
    \/ Hangup
    \/ CallFuture
    \/ StepFuture
    \/ DropFuture

\* ENABLED <<StepFuture>>_vars, written out: a future is in flight, its task
\* was woken and the caller is not holding a result (a step with wait 0 never
\* blocks, and every step changes `last`).
StepReady == fut.live /\ fut.woken /\ last = NoCall

\* The scheduler of the cooperative discipline is fair: a task that was woken
\* is polled again, and what a call returned is taken by its caller.  The
\* first conjunct is WF_vars(StepFuture) with its ENABLED written as StepReady.
SchedulerFair ==
    /\ <>[]StepReady => []<><<StepFuture>>_vars
    /\ WF_vars(Consume)

SpecFair == Init /\ [][FutureNext]_vars /\ SchedulerFair

(***************************************************************************)
(* The key decoder on its own: the terminal holds a sequence of bytes and  *)
(* blocking key reads take keys from it one after the other.               *)
(***************************************************************************)
MaxKeyInput == 4    \* the bytes queued before the first key read

KeyBytes == {INTR, ESC, 91, 53, 126, 97, 195, 169}

RECURSIVE SeqsUpTo(_, _)
SeqsUpTo(S, n) ==
    IF n = 0 THEN {<<>>}
    ELSE LET shorter == SeqsUpTo(S, n - 1)
         IN  shorter \cup {Append(q, b) : q \in shorter, b \in S}

KeyInit ==
    /\ term = [icanon |-> TRUE, echo |-> TRUE, other |-> 1]
    /\ input \in SeqsUpTo(KeyBytes, MaxKeyInput)
    /\ eof = FALSE
    /\ fut = NoFuture
    /\ last = NoCall
    /\ streams = [attended |-> TRUE, stdin |-> Streams_new(TRUE)]

\* StdinLock::read_key is called and no OS call fails.
CallReadKey ==
    /\ lock_stdin(streams) = "Some"
    /\ last = NoCall
    /\ \E o \in {read_blocking(MkOs(NoFault, <<>>, 1), "key")} :
           /\ ~o.os.blocked
           /\ term' = o.os.term
           /\ input' = o.os.input
           /\ last' = Call("blocking", "key", NoTimeout, o, 0, FALSE)
    /\ UNCHANGED <<eof, fut, streams>>

KeyNext ==
    \/ CallReadKey
    \/ Consume

SpecKey == KeyInit /\ [][KeyNext]_vars

(***************************************************************************)
(* The decoding tables: the terminal holds one key's bytes (a single byte, *)
(* an escape sequence, a UTF-8 sequence), whole or cut short, and what was *)
(* typed after it; blocking key reads take keys from it.                   *)
(***************************************************************************)
MaxTail == 1        \* the bytes typed after the key's own

\* What follows a key's bytes in the queue.
TailBytes == {126, 97, INTR}

Tails == SeqsUpTo(TailBytes, MaxTail)

\* Single bytes, alone or followed by a letter.
SingleInputs ==
    {<<b>> : b \in 0..255} \cup {<<b, 97>> : b \in 0..127}

\* ESC, then `[`, `O` or another byte, then a digit, a letter or another
\* byte, whole or cut short, then a tail.
EscapeSecond == {91, 79, ESC, INTR}

EscapeThird == (48..57) \cup (65..90) \cup {INTR, 126}

EscapeInputs ==
    {<<ESC, x>> : x \in EscapeSecond}
    \cup {<<ESC, x, y>> \o t : x \in EscapeSecond, y \in EscapeThird, t \in Tails}
    \cup {<<ESC, 91, y, 126>> \o t : y \in 48..57, t \in Tails}

\* A byte with a 2-, 3- or 4-byte header (valid or not), then up to three
\* bytes that are continuation bytes or not.
Utf8Leads == {192, 194, 195, 223, 224, 226, 237, 239, 240, 244, 245}

Utf8Follow == {128, 143, 144, 159, 160, 169, 191, 97, INTR}

Utf8Inputs ==
    {<<l>> \o c : l \in Utf8Leads, c \in SeqsUpTo(Utf8Follow, 3)}

TableInit ==
    /\ term = [icanon |-> TRUE, echo |-> TRUE, other |-> 1]
    /\ input \in SingleInputs \cup EscapeInputs \cup Utf8Inputs
    /\ eof = FALSE
    /\ fut = NoFuture
    /\ last = NoCall
    /\ streams = [attended |-> TRUE, stdin |-> Streams_new(TRUE)]

SpecTable == TableInit /\ [][KeyNext]_vars

(***************************************************************************)
(* Claims.                                                                 *)
(***************************************************************************)
\* The call recorded in `last` has returned to its caller with a value, with
\* no result or with an error (a step that returned Pending has not).
Returned ==
    /\ last.disc \in {"blocking", "timeout", "step"}
    /\ last.out \in {"Ok", "None", "Err"}

\* The tcsetattr that puts the snapshot back is the OS call that failed.
RestoreFailed == last.fault.call = "setattr"

\* An OS call of the recorded call failed with an errno.
OsCallFailed == last.fault.how \in Errnos

\* The bytes the recorded call took from the terminal (nothing arrived).
Consumed == SubSeq(last.preinput, 1, Len(last.preinput) - Len(last.post))

\* C1: whenever a read of any discipline returns to its caller (value, no
\* result, error or cancellation), the terminal mode is the snapshot taken
\* when the read acquired its mode guard.  (A return caused by the failure
\* of the restoring tcsetattr itself is left out.)
C1_ModeRestoredOnReturn ==
    (Returned /\ last.acquired /\ ~RestoreFailed) => term = last.original

\* C2: for every acquired guard the snapshot is restored exactly once before
\* the read that owns it ends, on every exit path.  (As for C1, the failure
\* of the restoring call itself is left out.)
C2_RestoredExactlyOnce ==
    (Returned /\ last.acquired /\ ~RestoreFailed) => last.restores = 1

\* C3: a key read that receives the interrupt byte at any position of the
\* bytes it takes ends with ErrorKind::Interrupted, never with a Key.
C3_SentinelAlwaysCancels ==
    ( /\ last.disc = "blocking" /\ last.kind = "key"
      /\ last.fault = NoFault /\ last.arrived = <<>>
      /\ last.out \in {"Ok", "Err"}
      /\ HasByte(Consumed, INTR) )
    => (last.out = "Err" /\ last.err = "Interrupted")

\* C4: when an OS call made during a read fails (mode query or set, poll,
\* read syscall), the read returns an error.  (A read syscall of a line read
\* interrupted by a signal is retried by std and is not counted.)
C4_OsFailureIsReturned ==
    ( /\ last.disc \in {"blocking", "timeout", "step"}
      /\ OsCallFailed
      /\ ~(last.kind /= "key" /\ last.fault.call = "read"
           /\ last.fault.how = "EINTR") )
    => last.out = "Err"

\* The queue the reader of the recorded call found: a flushing mode change
\* has discarded what was typed before.
QueueAtRead == IF FlushOf(last.kind) THEN <<>> ELSE last.preinput

\* C5: the abort conditions are told apart by the error kind: zero bytes on a
\* ready descriptor give UnexpectedEof, the interrupt byte gives Interrupted,
\* and a failed OS call is never reported as either of the two.
C5_AbortKindsDistinct ==
    /\ ( /\ Returned /\ last.acquired /\ last.fault = NoFault
         /\ last.preeof /\ QueueAtRead = <<>> /\ last.arrived = <<>> )
       => (last.out = "Err" /\ last.err = "UnexpectedEof")
    /\ ( /\ Returned /\ last.acquired /\ last.fault = NoFault
         /\ last.kind = "key" /\ QueueAtRead /= <<>> /\ QueueAtRead[1] = INTR )
       => (last.out = "Err" /\ last.err = "Interrupted")
    /\ (Returned /\ OsCallFailed /\ last.out = "Err")
       => last.err \notin {"UnexpectedEof", "Interrupted"}

\* The recorded call is a step of a future.
Step == last.disc = "step"

\* Nothing was readable when the recorded step began.
NoInputPending == ~Readable(last.pre, last.preinput, last.preeof)

\* What C6 says of a step.
OneZeroWaitAttempt ==
    /\ last.waits = <<NoWait>>
    /\ Len(last.polls) >= 1
    /\ \A i \in 1..Len(last.polls) : last.polls[i] = NoWait
    /\ (NoInputPending /\ last.fault = NoFault)
       => (last.out = "Pending" /\ last.post = last.preinput /\ last.nreads = 0)

\* C6 as stated: every step of a future makes exactly one read attempt, with
\* wait 0, and a step taken with no input pending returns Pending, takes no
\* byte and polls with no other wait.
C6_EveryStepOneAttempt == Step => OneZeroWaitAttempt

\* C6, amended: every step of a future whose mode acquisition succeeded
\* makes exactly one read attempt, every poll of it with wait 0, and a step
\* taken with no input pending (and no OS call failing) returns Pending and
\* takes no byte.
C6_AcquiredStepOneAttempt == (Step /\ last.acquired) => OneZeroWaitAttempt

\* Reached: a second or later step taken with nothing pending returned Pending.
C6_Witness ==
    /\ Step /\ last.acquired /\ last.steps >= 2
    /\ NoInputPending /\ last.out = "Pending"

\* The key the decoder gives for the input the recorded step found, when no
\* OS call fails.
DecodedKey ==
    read_key(OsOf(last.pre, last.preinput, last.preeof, NoFault, <<>>, 1), NoWait)

\* C7: a step of a cooperative key read taken when a byte is available does
\* not return Pending; when no OS call fails and the input is not the
\* interrupt byte it returns Ready with the key decoded from that input, and
\* the bytes of the key, no others, are gone from the queue.
C7_NextStepReturnsKey ==
    (Step /\ last.kind = "key" /\ last.acquired /\ last.preinput /= <<>>)
    => /\ last.out /= "Pending"
       /\ (last.fault = NoFault /\ DecodedKey.tag = "Some")
          => /\ last.out = "Ok"
             /\ last.val = DecodedKey.val
             /\ last.post = DecodedKey.os.input
             /\ Len(last.post) < Len(last.preinput)
             /\ (last.preinput[1] = 97
                 => (last.val = Char(97) /\ last.post = Tail(last.preinput)))

\* Reached: after a step that returned Pending, a step returned a key.
C7_Witness ==
    /\ Step /\ last.kind = "key" /\ last.steps >= 2
    /\ last.out = "Ok" /\ last.val = Char(97)

\* What C8 says of the steps: a Pending step neither restores nor acquires
\* and leaves the snapshot in its slot, the terminal stays in the requested
\* mode while the future is in flight, and a restore is made only by a step
\* that returns Ready.
GuardHeldWhilePending ==
    /\ (fut.live /\ fut.slot.tag = "Ok")
       => term = ApplyFlags(fut.slot.term, FlagsOf(fut.kind))
    /\ (Step /\ last.out = "Pending")
       => /\ last.nattr = 0 /\ last.restores = 0
          /\ term = last.pre
          /\ fut.slot = [tag |-> "Ok", term |-> last.original, kind |-> ""]
    /\ Step => last.nattr <= 1
    /\ (Step /\ last.restores > 0) => last.out \in {"Ok", "Err"}

\* C8 as stated: the guard is acquired at the first step (making the future
\* does not touch the terminal mode) and is held across Pending steps.
C8_AcquiredAtFirstStep ==
    /\ (last.disc = "future") => (last.nattr = 0 /\ term = last.pre)
    /\ GuardHeldWhilePending

\* C8, amended: the guard is acquired once, when the future is made (before
\* any step), and is held across Pending steps; a restore is made only by a
\* step that returns Ready.
C8_AcquiredWhenMade ==
    /\ (last.disc = "future" /\ last.acquired)
       => /\ last.nattr = 1
          /\ last.original = last.pre
          /\ term = ApplyFlags(last.pre, FlagsOf(last.kind))
    /\ GuardHeldWhilePending

\* Reached: a second or later Pending step, the terminal still in the
\* requested mode, which is not the snapshot.
C8_Witness ==
    /\ Step /\ last.out = "Pending" /\ last.steps >= 2
    /\ term /= last.original

\* The recorded call is a timeout-bounded read that acquired its guard.
TimeoutCall == last.disc = "timeout" /\ last.acquired

\* The waits add up to the timeout: all but the last are i32::MAX.
WaitsSumTo(ws, t) ==
    LET n == Len(ws)
    IN  /\ n >= 1
        /\ \/ (ws[n] = t.lo /\ n - 1 = t.hi)
           \/ (ws[n] = I32_MAX /\ t.lo = 0 /\ n = t.hi)

\* Nothing was readable during the recorded call.
NothingReady ==
    /\ last.arrived = <<>>
    /\ ~Readable(ApplyFlags(last.pre, FlagsOf(last.kind)), QueueAtRead, last.preeof)

\* The polls of the recorded call from the i-th on.
PollsFrom(i) == SubSeq(last.polls, i, Len(last.polls))

\* What C9 says of the outcome: when nothing becomes ready (and no OS call
\* fails) the call returns no result and its waits sum to the timeout.
TimeoutRunsOut ==
    /\ (NothingReady /\ last.fault = NoFault) => last.out = "None"
    /\ (last.out = "None")
       => (last.polls = last.waits /\ WaitsSumTo(last.waits, last.timeout))

\* C9 as stated: every poll of a timeout-bounded read has a wait in
\* 0..i32::MAX, every poll but the last waits i32::MAX, the waits sum to the
\* timeout when nothing becomes ready, and once input is ready during a poll
\* the value is returned with no further poll.
C9_EveryPollButLastIsMax ==
    TimeoutCall
    => /\ \A i \in 1..Len(last.polls) :
              last.polls[i] >= 0 /\ last.polls[i] <= I32_MAX
       /\ \A i \in 1..(Len(last.polls) - 1) : last.polls[i] = I32_MAX
       /\ TimeoutRunsOut
       /\ (last.out = "Ok")
          => Len(last.polls) = (IF last.arrivedAt > 0 THEN last.arrivedAt ELSE 1)

\* C9, amended: the read attempts of a timeout-bounded read have waits in
\* 0..i32::MAX, every one but the last waits i32::MAX; when nothing becomes
\* ready (and no OS call fails) they sum to the timeout and the call returns
\* no result; when input becomes ready during a wait the value is returned
\* with no further read attempt, and the only polls after that wait are the
\* key decoder's look-ahead polls, each with wait 0.
C9_TimeoutSplitIntoMaxWaits ==
    TimeoutCall
    => /\ Len(last.waits) >= 1
       /\ \A i \in 1..Len(last.waits) :
              last.waits[i] >= 0 /\ last.waits[i] <= I32_MAX
       /\ \A i \in 1..(Len(last.waits) - 1) : last.waits[i] = I32_MAX
       /\ Len(last.polls) >= Len(last.waits)
       /\ SubSeq(last.polls, 1, Len(last.waits)) = last.waits
       /\ PollsFrom(Len(last.waits) + 1) = Zeros(Len(last.polls) - Len(last.waits))
       /\ (last.kind /= "key") => last.polls = last.waits
       /\ TimeoutRunsOut
       /\ (last.out = "Ok")
          => Len(last.waits) = (IF last.arrivedAt > 0 THEN last.arrivedAt ELSE 1)

\* Reached: a timeout above 2 * i32::MAX ran out in three waits.
C9_Witness ==
    /\ TimeoutCall /\ last.fault = NoFault /\ last.out = "None"
    /\ last.timeout = Millis(2, 1)
    /\ last.polls = <<I32_MAX, I32_MAX, 1>>

\* C10: a timeout-bounded read with a zero duration and no input pending
\* makes one poll, with wait 0, and returns no result.
C10_ZeroTimeoutReturnsAtOnce ==
    (TimeoutCall /\ last.timeout = Millis(0, 0) /\ NothingReady
     /\ last.fault = NoFault)
    => /\ last.polls = <<0>>
       /\ last.waits = <<0>>
       /\ last.out = "None"
       /\ last.nreads = 0

\* Reached: a zero timeout on an empty queue returned no result.
C10_Witness ==
    /\ TimeoutCall /\ last.timeout = Millis(0, 0)
    /\ last.preinput = <<>> /\ ~last.preeof
    /\ last.out = "None" /\ last.polls = <<0>>

\* C11: a blocking read polls with an unbounded wait and ends only with a
\* value or with an error: whatever the poll reports (a return without the
\* readable event included), it never yields no result and never panics on
\* the unwrap of the read's result.
C11_BlockingReturnsValueOrError ==
    (last.disc = "blocking" /\ last.acquired)
    => /\ last.polls /= <<>> /\ last.polls[1] = Forever
       /\ last.out \in {"Ok", "Err"}

\* The queue after a step of the system still begins with the queue before
\* it: no byte was taken from it.
NothingTaken ==
    Len(input') >= Len(input) /\ SubSeq(input', 1, Len(input)) = input

KeyRead ==
    /\ last.disc \in {"blocking", "timeout", "step"}
    /\ last.kind = "key" /\ last.acquired
    /\ last.fault = NoFault /\ last.arrived = <<>>

\* C13: when the first byte read is ESC and the zero-wait poll right after it
\* reports no further byte ready, the key read returns Key::Escape, takes
\* exactly that byte and does not wait for more: its polls are the caller's
\* wait and the zero-wait probe.
C13_LoneEscape ==
    (KeyRead /\ last.preinput = <<ESC>> /\ ~last.preeof)
    => /\ last.out = "Ok" /\ last.val = Key("Escape")
       /\ last.post = <<>> /\ last.nreads = 1
       /\ Len(last.polls) = 2 /\ last.polls[2] = NoWait
       /\ last.polls[1] = last.waits[Len(last.waits)]

\* Reached: a timeout-bounded key read with a non-zero wait returned Escape
\* for a lone ESC.
C13_Witness ==
    /\ KeyRead /\ last.disc = "timeout" /\ last.preinput = <<ESC>>
    /\ last.polls = <<1, NoWait>> /\ last.val = Key("Escape")

\* The recorded key read found ESC, `[` and one more byte at the head of the
\* queue.
AfterCsi == Len(last.preinput) >= 3 /\ last.preinput[1] = ESC /\ last.preinput[2] = 91

\* The table of C14: the byte after ESC `[` and the key.
FinalKey ==
    (65 :> "ArrowUp") @@ (66 :> "ArrowDown") @@ (67 :> "ArrowRight")
    @@ (68 :> "ArrowLeft") @@ (72 :> "Home") @@ (70 :> "End") @@ (90 :> "BackTab")

\* C14: ESC followed by `[A`, `[B`, `[C`, `[D`, `[H`, `[F` or `[Z` gives
\* ArrowUp, ArrowDown, ArrowRight, ArrowLeft, Home, End or BackTab right
\* after those three bytes: no trailing byte is polled for or read, what
\* follows stays in the queue.
C14_FinalLetterEndsSequence ==
    (KeyRead /\ AfterCsi /\ last.preinput[3] \in DOMAIN FinalKey)
    => /\ last.out = "Ok" /\ last.val = Key(FinalKey[last.preinput[3]])
       /\ last.post = Drop(last.preinput, 3)
       /\ last.nreads = 2 /\ Len(last.polls) = 3

\* Reached: ESC [ C with a tilde typed after it gave ArrowRight and left the
\* tilde.
C14_Witness ==
    /\ KeyRead /\ last.preinput = <<ESC, 91, 67, 126>>
    /\ last.val = Key("ArrowRight") /\ last.post = <<126>>

\* The table of C15: the digit after ESC `[` and the key.
TildeKey ==
    (49 :> "Home") @@ (50 :> "Insert") @@ (51 :> "Del") @@ (52 :> "End")
    @@ (53 :> "PageUp") @@ (54 :> "PageDown") @@ (55 :> "Home") @@ (56 :> "End")

\* The recorded key read found ESC, `[` and a digit 1..8.
AfterCsiDigit == AfterCsi /\ last.preinput[3] \in DOMAIN TildeKey

\* With a tilde after the digit the key is the table's and four bytes are
\* taken.
TildeGivesKey ==
    (KeyRead /\ AfterCsiDigit /\ Len(last.preinput) >= 4 /\ last.preinput[4] = 126)
    => /\ last.out = "Ok" /\ last.val = Key(TildeKey[last.preinput[3]])
       /\ last.post = Drop(last.preinput, 4)

\* C15 as stated: after ESC `[` and a digit 1..8 one more byte is taken; a
\* tilde gives the table's key; any other trailing byte, whatever its value,
\* or none ready, gives Key::Unknown and never an error.
C15_AnyOtherTrailerIsUnknown ==
    /\ TildeGivesKey
    /\ (KeyRead /\ AfterCsiDigit /\ (Len(last.preinput) < 4 \/ last.preinput[4] /= 126))
       => /\ last.out = "Ok" /\ last.val = Key("Unknown")
          /\ last.post = Drop(last.preinput, 4)

\* C15, amended: after ESC `[` and a digit 1..8 one more byte is taken; a
\* tilde gives the table's key; any other trailing byte but the interrupt
\* byte, or none ready, gives Key::Unknown and no error; the interrupt byte
\* in the trailing position gives the cancellation error.
C15_TrailerDecidesKey ==
    /\ TildeGivesKey
    /\ (KeyRead /\ AfterCsiDigit /\ ~last.preeof
        /\ (Len(last.preinput) < 4 \/ last.preinput[4] \notin {126, INTR}))
       => /\ last.out = "Ok" /\ last.val = Key("Unknown")
          /\ last.post = Drop(last.preinput, 4)
    /\ (KeyRead /\ AfterCsiDigit /\ Len(last.preinput) >= 4 /\ last.preinput[4] = INTR)
       => /\ last.out = "Err" /\ last.err = "Interrupted"
          /\ last.post = Drop(last.preinput, 4)

\* Reached: ESC [ 5 and a letter gave Unknown and took the letter.
C15_Witness ==
    /\ KeyRead /\ last.preinput = <<ESC, 91, 53, 97>>
    /\ last.val = Key("Unknown") /\ last.post = <<>> /\ last.nreads = 3

\* The recorded key read found ESC and two more bytes that are no known
\* sequence.
AfterEscUnknown ==
    /\ Len(last.preinput) >= 3 /\ last.preinput[1] = ESC
    /\ \/ last.preinput[2] /= 91
       \/ last.preinput[3] \notin (DOMAIN FinalKey \cup DOMAIN TildeKey)

\* What C16 says of the read: Key::Unknown after exactly three bytes.
UnknownAfterThree ==
    /\ last.out = "Ok" /\ last.val = Key("Unknown")
    /\ last.post = Drop(last.preinput, 3)
    /\ last.nreads = 2 /\ Len(last.polls) = 3

\* C16 as stated: ESC followed by two bytes that match no known sequence
\* gives Key::Unknown with exactly three bytes taken; every later byte is
\* left for the next read.
C16_UnknownLookaheadTakesThree ==
    (KeyRead /\ AfterEscUnknown) => UnknownAfterThree

\* C16, amended: ESC followed by two bytes that match no known sequence, the
\* first of them not the interrupt byte, gives Key::Unknown with exactly
\* three bytes taken, every later byte left for the next read; when the
\* first of the two is the interrupt byte the read is cancelled.
C16_UnknownUnlessInterrupt ==
    /\ (KeyRead /\ AfterEscUnknown /\ last.preinput[2] /= INTR) => UnknownAfterThree
    /\ (KeyRead /\ AfterEscUnknown /\ last.preinput[2] = INTR)
       => /\ last.out = "Err" /\ last.err = "Interrupted"
          /\ last.post = Drop(last.preinput, 3)

\* Reached: ESC [ 9 ~ gave Unknown and left the tilde.
C16_Witness ==
    /\ KeyRead /\ last.preinput = <<ESC, 91, 57, 126>>
    /\ last.val = Key("Unknown") /\ last.post = <<126>>

\* The continuation bytes a header byte announces (0: no multi-byte header).
Announced(b) ==
    IF b >= 192 /\ b <= 223 THEN 1
    ELSE IF b >= 224 /\ b <= 239 THEN 2
    ELSE IF b >= 240 /\ b <= 247 THEN 3
    ELSE 0

\* The payload bits of a header byte with n continuation bytes, and the
\* number the whole sequence spells.
HeaderBits(b, n) == b % (CASE n = 1 -> 32 [] n = 2 -> 16 [] OTHER -> 8)

RECURSIVE Spelled(_, _)
Spelled(acc, conts) ==
    IF conts = <<>> THEN acc
    ELSE Spelled(acc * 64 + (Head(conts) % 64), Tail(conts))

ScalarOf(seq) == Spelled(HeaderBits(seq[1], Len(seq) - 1), Tail(seq))

\* Every byte after the header has the form 10xxxxxx.
ContinuationsValid(seq) ==
    \A i \in 2..Len(seq) : seq[i] \div 64 = 2

\* The Unicode definition of a well-formed sequence: valid continuation
\* bytes, the shortest form, no surrogate, at most U+10FFFF.
WellFormed(seq) ==
    /\ ContinuationsValid(seq)
    /\ ScalarOf(seq) >= (CASE Len(seq) = 2 -> 128 [] Len(seq) = 3 -> 2048
                           [] OTHER -> 65536)
    /\ ScalarOf(seq) \notin 55296..57343
    /\ ScalarOf(seq) <= 1114111

\* The recorded key read found a multi-byte header at the head of the queue.
AfterHeader == last.preinput /= <<>> /\ Announced(last.preinput[1]) > 0

\* The header and the continuation bytes the read found for it.
Sequence == Take(last.preinput, Announced(last.preinput[1]) + 1)

SequenceComplete == Len(Sequence) = Announced(last.preinput[1]) + 1

\* C17 as stated: a header followed by its valid continuation bytes (a
\* well-formed sequence) gives Key::Char of the scalar the bytes encode; with
\* the continuation bytes missing, too few or not valid the result is
\* Key::Unknown.
C17_HeaderAndContinuations ==
    (KeyRead /\ AfterHeader)
    => IF SequenceComplete /\ WellFormed(Sequence)
       THEN last.out = "Ok" /\ last.val = Char(ScalarOf(Sequence))
       ELSE last.out = "Ok" /\ last.val = Key("Unknown")

\* C17, amended: a header followed by the continuation bytes of a
\* well-formed UTF-8 sequence gives Key::Char of the scalar the bytes
\* encode; with the continuation bytes missing, too few or not valid (an
\* overlong form, a surrogate and a value above U+10FFFF included) the
\* result is Key::Unknown, never a Key::Char; but when the first byte after
\* the header is the interrupt byte the read is cancelled.  The read takes
\* the header and as many of the announced bytes as are queued.
C17_WellFormedOrUnknown ==
    (KeyRead /\ AfterHeader)
    => /\ last.post = Drop(last.preinput, Len(Sequence))
       /\ IF Len(Sequence) >= 2 /\ Sequence[2] = INTR
          THEN last.out = "Err" /\ last.err = "Interrupted"
          ELSE IF SequenceComplete /\ WellFormed(Sequence)
          THEN last.out = "Ok" /\ last.val = Char(ScalarOf(Sequence))
          ELSE last.out = "Ok" /\ last.val = Key("Unknown")

\* Reached: E2 8F A9 gave Char(U+23E9).
C17_Witness ==
    /\ KeyRead /\ last.preinput = <<226, 143, 169>>
    /\ last.val = Char(9193) /\ last.post = <<>>

\* The control table of C19: the byte and the key.
ControlKey ==
    (10 :> "Enter") @@ (13 :> "Enter") @@ (127 :> "Backspace")
    @@ (8 :> "Backspace") @@ (9 :> "Tab") @@ (1 :> "Home") @@ (5 :> "End")

\* The ASCII bytes outside the control table, the interrupt byte and ESC.
PlainAscii == (0..127) \ (DOMAIN ControlKey \cup {INTR, ESC})

\* The recorded key read took one byte with one poll and one read.
TookOneByte ==
    /\ last.post = Tail(last.preinput)
    /\ last.nreads = 1 /\ Len(last.polls) = 1

\* C18: for every byte b of 0x00..0x7F that is not in the control table, not
\* the interrupt byte and not ESC, a key read that finds b returns
\* Key::Char(b) and takes exactly one byte.
C18_PlainAsciiIsChar ==
    (KeyRead /\ last.preinput /= <<>> /\ last.preinput[1] \in PlainAscii)
    => /\ last.out = "Ok" /\ last.val = Char(last.preinput[1])
       /\ TookOneByte

\* Reached: the byte 0x02 followed by a letter gave Char(2) and left the
\* letter.
C18_Witness ==
    /\ KeyRead /\ last.preinput = <<2, 97>>
    /\ last.val = Char(2) /\ last.post = <<97>>

\* C19: the control bytes decode as the table states (`\n` and `\r` Enter,
\* 0x7F and 0x08 Backspace, `\t` Tab, 0x01 Home, 0x05 End), ahead of the
\* generic byte-to-Char rule, and 0x03 gives the cancellation error, not a
\* Key.
C19_ControlTable ==
    /\ (KeyRead /\ last.preinput /= <<>> /\ last.preinput[1] \in DOMAIN ControlKey)
       => /\ last.out = "Ok" /\ last.val = Key(ControlKey[last.preinput[1]])
          /\ last.val /= Char(last.preinput[1])
          /\ TookOneByte
    /\ (KeyRead /\ last.preinput /= <<>> /\ last.preinput[1] = INTR)
       => /\ last.out = "Err" /\ last.err = "Interrupted"
          /\ last.val = NoValue
          /\ TookOneByte

\* Reached: a carriage return followed by a letter gave Enter.
C19_Witness ==
    /\ KeyRead /\ last.preinput = <<13, 97>>
    /\ last.val = Key("Enter") /\ last.post = <<97>>

\* The queue holds the beginning of a key and nothing else: a lone ESC, a
\* CSI sequence cut short, a UTF-8 sequence cut short.
KeyPrefix(q) ==
    \/ q = <<ESC>>
    \/ q = <<ESC, 91>>
    \/ Len(q) = 3 /\ q[1] = ESC /\ q[2] = 91 /\ q[3] \in DOMAIN TildeKey
    \/ /\ q /= <<>> /\ Announced(q[1]) >= Len(q)
       /\ \A i \in 2..Len(q) : q[i] \div 64 = 2

\* C20: once the first byte of a key has been read the decoder does not wait
\* for input: every poll after the first has wait 0 although the caller's
\* wait is unbounded, at most four polls and three reads are made, a
\* blocking key read called with a byte queued always returns, and for the
\* beginning of a key (lone ESC, CSI or UTF-8 sequence cut short) it returns
\* a Key.
C20_DecoderNeverWaits ==
    /\ (last = NoCall /\ input /= <<>> /\ ~fut.live)
       => ~read_blocking(MkOs(NoFault, <<>>, 1), "key").os.blocked
    /\ (KeyRead /\ last.disc = "blocking" /\ last.nreads >= 1)
       => /\ last.polls[1] = Forever
          /\ \A i \in 2..Len(last.polls) : last.polls[i] = NoWait
          /\ Len(last.polls) <= 4 /\ last.nreads <= 3
    /\ (KeyRead /\ last.disc = "blocking" /\ KeyPrefix(last.preinput))
       => /\ last.out = "Ok" /\ last.val.k \in KeyNames
          /\ last.post = <<>>

\* Reached: a blocking key read found ESC [ 5 and nothing more, and returned
\* Unknown after four polls, the last three with wait 0.
C20_Witness ==
    /\ KeyRead /\ last.disc = "blocking" /\ last.preinput = <<ESC, 91, 53>>
    /\ last.polls = <<Forever, NoWait, NoWait, NoWait>>
    /\ last.out = "Ok" /\ last.val = Key("Unknown")

\* The recorded call made no OS call on the input.
NoOsCall ==
    /\ last.polls = <<>> /\ last.nreads = 0
    /\ last.nattr = 0 /\ last.modes = <<>>

\* C21: when stdin is not a terminal (checked once, when the streams are
\* made) lock_stdin yields None, so no read of any discipline starts and no
\* mode query, mode change, poll or read is made on the input: the mode
\* and the queued bytes stay as they are; the condition shows as None or as
\* the FAILED_CONNECT panic of the facade, never as an I/O error value.
C21_UnattendedInputUnavailable ==
    /\ [](~streams.attended
          => /\ lock_stdin(streams) = "None"
             /\ ~fut.live
             /\ (last /= NoCall)
                => /\ last.disc \in {"lock_stdin", "facade"}
                   /\ last.out \in {"None", "Panic"}
                   /\ (last.disc = "lock_stdin") => last.out = "None"
                   /\ (last.disc = "facade")
                      => (last.out = "Panic" /\ last.err = FAILED_CONNECT)
                   /\ NoOsCall)
    /\ [][~streams.attended
          => (term' = term /\ NothingTaken /\ streams' = streams)]_vars

\* Reached: with bytes waiting on an input that is no terminal, the facade's
\* read panicked with FAILED_CONNECT.
C21_Witness ==
    /\ ~streams.attended /\ input /= <<>>
    /\ last.disc = "facade" /\ last.out = "Panic" /\ last.err = FAILED_CONNECT

\* C22: when a cooperative read is dropped while it is pending, after its
\* guard was acquired, the guard's release still runs, once: the terminal
\* mode is the snapshot again.
C22_DroppedFutureRestores ==
    (last.disc = "drop" /\ last.acquired)
    => (term = last.original /\ last.restores = 1)

\* A Config was being made and the mode query failed.
QueryFailed == last.disc = "config" /\ last.fault.call = "getattr"

\* C23: when the mode query of an acquisition fails, the acquisition stops
\* there: no mode-set call is made, the terminal mode and the queued input are
\* what they were before, there is no guard and nothing is put back.
C23_QueryFailureChangesNothing ==
    QueryFailed =>
        /\ last.out = "Panic"
        /\ last.nattr = 0
        /\ last.modes = <<>>
        /\ ~last.acquired
        /\ last.restores = 0
        /\ term = last.pre
        /\ input = last.preinput

\* C23 witness: a Config asked to change the mode of a canonical, echoing
\* terminal met a failing mode query.
C23_Witness ==
    /\ QueryFailed
    /\ last.flags = <<"NotCanonical", "NotEcho">>
    /\ last.pre.icanon /\ last.pre.echo
    /\ last.out = "Panic"

\* C24: every array read_bytes has returned as Some held only bytes that a
\* read took from the input: none of its positions is a zero the buffer was
\* made with.
C24_ArrayFullyRead ==
    (last.disc \in {"blocking", "timeout", "step", "facade"}) => last.filler = 0

\* A Config was made: its mode query and its mode set succeeded.
ConfigMade == last.disc = "config" /\ last.acquired /\ Len(last.modes) >= 1

\* The places of the flags that name the bit set by `on` and cleared by `off`.
Mentions(flags, on, off) == {i \in 1..Len(flags) : flags[i] \in {on, off}}

\* What the flags ask of a bit that was `was`: the last flag naming it
\* decides, whatever the bit was; a bit no flag names stays.
Requested(flags, on, off, was) ==
    IF Mentions(flags, on, off) = {} THEN was
    ELSE LET n == CHOOSE i \in Mentions(flags, on, off) :
                      \A j \in Mentions(flags, on, off) : j <= i
         IN  flags[n] = on

\* C25: the mode a Config sets differs from the mode before in the ICANON
\* and ECHO bits only, each as the flags ask whatever it was before, and the
\* original it keeps is the mode before.
C25_OnlyRequestedBitsChange ==
    ConfigMade =>
        /\ last.modes[1].other = last.pre.other
        /\ last.modes[1].icanon
              = Requested(last.flags, "Canonical", "NotCanonical", last.pre.icanon)
        /\ last.modes[1].echo
              = Requested(last.flags, "Echo", "NotEcho", last.pre.echo)
        /\ last.original = last.pre

\* C25 witness: a Config asked for canonical input without echo on a
\* terminal already canonical and echoing: one bit stays set, one is cleared.
C25_Witness ==
    /\ ConfigMade
    /\ last.flags = <<"Canonical", "NotEcho">>
    /\ last.pre.icanon /\ last.pre.echo
    /\ last.modes[1] = [last.pre EXCEPT !.echo = FALSE]

\* A hidden line read that acquired its guard, in the call that acquired it.
HiddenAcquired ==
    /\ last.kind = "hidden" /\ last.acquired
    /\ last.disc \in {"blocking", "timeout", "future"}

\* The bytes s are the first bytes of t.
IsPrefix(s, t) == Len(s) <= Len(t) /\ s = SubSeq(t, 1, Len(s))

\* Echo is set by no mode-set call of the recorded call but, at most, the
\* one that puts the snapshot back, which is the call's last.
EchoOffUntilRelease(from) ==
    \A i \in from..Len(last.modes) :
        last.modes[i].echo
        => /\ i = Len(last.modes)
           /\ last.restores = 1
           /\ last.modes[i] = last.original

\* C26: a hidden line read of any discipline, whatever the mode before, sets
\* canonical mode without echo when it acquires its guard and echo stays off
\* until the snapshot is put back; the acquisition empties the input queue,
\* so a returned line is made of bytes that arrived after it only.
C26_HiddenReadHidesAndFlushes ==
    /\ HiddenAcquired
       => /\ last.modes[1] = [last.pre EXCEPT !.icanon = TRUE, !.echo = FALSE]
          /\ EchoOffUntilRelease(1)
          /\ (last.disc = "future") => (input = <<>> /\ ~term.echo)
          /\ (last.out = "Ok") => IsPrefix(last.val.s, last.arrived)
    /\ (fut.live /\ fut.kind = "hidden" /\ fut.slot.tag = "Ok") => ~term.echo
    /\ (last.disc = "step" /\ last.kind = "hidden" /\ last.acquired)
       => (~last.pre.echo /\ EchoOffUntilRelease(1))

\* C26 witness: on an echoing terminal with a byte already queued, a
\* blocking hidden read returned the line that arrived while it waited,
\* without that byte.
C26_Witness ==
    /\ HiddenAcquired /\ last.disc = "blocking"
    /\ last.pre.echo /\ last.preinput = <<97>>
    /\ last.out = "Ok" /\ last.val = Line(<<LF>>)
    /\ term = last.pre

\* A cooperative read is in flight and a step of it would not find nothing:
\* input is readable (bytes, or the end of input) or its acquisition failed.
InputForFuture ==
    /\ fut.live
    /\ (Readable(term, input, eof) \/ fut.slot.tag = "Err")

\* The cooperative read has returned Ready, or its caller gave it up.
FutureDone ==
    \/ Step /\ last.out \in {"Ok", "Err"}
    \/ last.disc = "drop"

\* C27: a step that returns Pending has signalled the waker before it
\* returns, so the task is polled again; with a fair scheduler a cooperative
\* read for which input has become available (or has ended, or whose
\* acquisition failed) eventually returns Ready.
C27_NoLostWakeup ==
    /\ []((Step /\ last.out = "Pending") => (last.woken /\ fut.woken))
    /\ (InputForFuture ~> FutureDone)

\* C27 witness: after a step that returned Pending and woke the task, a
\* later step returned the line typed in between.
C27_Witness ==
    /\ Step /\ last.steps = 2
    /\ last.out = "Ok" /\ last.val = Line(<<LF>>)
    /\ last.kind = "string"

\* C28: while a cooperative read is in flight its slot holds a value (the
\* snapshot or the acquisition's error), a step that returns Pending leaves
\* in it the snapshot it found, no step runs the unreachable!() arm, and the
\* first step of a read whose acquisition failed returns that error without a
\* poll, a read or a mode set.
C28_SlotHeldUntilReady ==
    /\ [](fut.live => fut.slot.tag \in {"Ok", "Err"})
    /\ [](Step => last.out /= "Panic")
    /\ []((Step /\ last.out = "Pending")
          => /\ fut.live
             /\ fut.slot = [tag |-> "Ok", term |-> last.original, kind |-> ""])
    /\ [][(fut.live /\ fut'.live) => fut'.slot = fut.slot]_vars
    /\ [][(fut.live /\ fut.slot.tag = "Err" /\ last'.disc = "step")
            => /\ fut.steps = 0
               /\ last'.out = "Err" /\ last'.err = fut.slot.kind
               /\ last'.polls = <<>> /\ last'.nreads = 0 /\ last'.nattr = 0
               /\ ~fut'.live
               /\ term' = term /\ input' = input]_vars

\* C28 witness: the second step of a read returned Pending and the slot
\* holds the snapshot taken when the future was made.
C28_Witness ==
    /\ Step /\ last.steps = 2 /\ last.out = "Pending"
    /\ fut.live /\ fut.slot.tag = "Ok" /\ fut.slot.term = last.original
    /\ last.original.echo /\ ~term.echo

====
